---- MODULE Spec2Model ----
(***************************************************************************)
(* Model of antec_display_service.py: sensor resolution at startup, the    *)
(* payload encoder, the USB transport and the monitor loop.                *)
(*                                                                         *)
(* Representation choices                                                  *)
(*  - A Python str is a tuple of one-character strings, so that strip(),   *)
(*    lower(), the 02x format and bytes.fromhex are computed, not assumed. *)
(*  - A temperature (a Python float in degrees Celsius) is carried as the  *)
(*    integer number of millidegrees: read_temperature computes            *)
(*    float(text) / 1000 from an integer text.  //, % and int() on such a  *)
(*    float are floor division, floor modulus and truncation, which are    *)
(*    \div and % on the millidegree count.                                 *)
(*  - None is the empty tuple <<>>.                                        *)
(***************************************************************************)
EXTENDS Integers, Sequences, FiniteSets

\* ------------------------------------------------------------------ bounds
\* Largest temperature of the one-decimal grid, in tenths of a degree (99.9).
MaxTenths == 999
\* Number of "Device not found" ticks that are counted.
MaxMissed == 2

\* ------------------------------------------------------------- str helpers
None == <<>>

UpperChars == <<"A","B","C","D","E","F","G","H","I","J","K","L","M",
                "N","O","P","Q","R","S","T","U","V","W","X","Y","Z">>
LowerChars == <<"a","b","c","d","e","f","g","h","i","j","k","l","m",
                "n","o","p","q","r","s","t","u","v","w","x","y","z">>

\* str.lower() on one character.
LowerChar(c) ==
    IF \E i \in 1..Len(UpperChars) : UpperChars[i] = c
    THEN LowerChars[CHOOSE i \in 1..Len(UpperChars) : UpperChars[i] = c]
    ELSE c

\* str.lower()
Lower(s) == [i \in 1..Len(s) |-> LowerChar(s[i])]

Whitespace == {" ", "\n", "\t"}

RECURSIVE LStrip(_)
LStrip(s) == IF s # <<>> /\ Head(s) \in Whitespace THEN LStrip(Tail(s)) ELSE s

RECURSIVE RStrip(_)
RStrip(s) ==
    IF s # <<>> /\ s[Len(s)] \in Whitespace
    THEN RStrip(SubSeq(s, 1, Len(s) - 1))
    ELSE s

\* str.strip()
Strip(s) == RStrip(LStrip(s))

\* ------------------------------------------------------- payload encoder
HexDigits == <<"0","1","2","3","4","5","6","7","8","9","a","b","c","d","e","f">>

\* Hexadecimal digits of a non-negative integer, most significant first.
RECURSIVE HexStr(_)
HexStr(n) ==
    IF n < 16 THEN <<HexDigits[n + 1]>>
    ELSE HexStr(n \div 16) \o <<HexDigits[(n % 16) + 1]>>

\* f"{v:02x}": minimum width 2, zero padded, the sign counts in the width.
Format02x(v) ==
    IF v < 0 THEN <<"-">> \o HexStr(-v)
    ELSE IF v < 16 THEN <<"0">> \o HexStr(v) ELSE HexStr(v)

IsHexChar(c) == \E i \in 1..16 : HexDigits[i] = c
HexVal(c) == (CHOOSE i \in 1..16 : HexDigits[i] = c) - 1

\* bytes.fromhex(s) raises ValueError unless s is an even number of hex digits.
FromHexOK(s) == Len(s) % 2 = 0 /\ \A i \in 1..Len(s) : IsHexChar(s[i])
FromHex(s) == [i \in 1..(Len(s) \div 2) |-> 16 * HexVal(s[2*i - 1]) + HexVal(s[2*i])]

RECURSIVE SumSeq(_)
SumSeq(s) == IF s = <<>> THEN 0 ELSE Head(s) + SumSeq(Tail(s))

\* A variant that takes the last digit from the hundredths,
\* int((temp * 100) % 10).
encode_temperature_hundredths(temp) ==
    LET integer_part    == temp \div 10000
        tenths_part     == (temp % 10000) \div 1000
        hundredths_part == (temp % 100) \div 10
    IN  Format02x(integer_part) \o Format02x(tenths_part) \o Format02x(hundredths_part)

\* A variant that emits the ones digit before the tens.
encode_temperature_swapped(temp) ==
    LET integer_part    == temp \div 10000
        tenths_part     == (temp % 10000) \div 1000
        hundredths_part == ((temp * 10) % 10000) \div 1000
    IN  Format02x(tenths_part) \o Format02x(integer_part) \o Format02x(hundredths_part)

\* encode_temperature(temp), temp in millidegrees:
\*   int(temp // 10), int(temp % 10), int((temp * 10) % 10), each as 02x.
encode_temperature(temp) ==
    LET integer_part    == temp \div 10000
        tenths_part     == (temp % 10000) \div 1000
        hundredths_part == ((temp * 10) % 10000) \div 1000
    IN  Format02x(integer_part) \o Format02x(tenths_part) \o Format02x(hundredths_part)

HeaderHex == <<"5","5","a","a","0","1","0","1","0","6">>

\* A variant whose checksum omits the fixed offset.
Checksum_nooffset(combined_encoded) == SumSeq(combined_encoded) % 256

\* checksum = (sum(combined_encoded) + 7) % 256
Checksum(combined_encoded) == (SumSeq(combined_encoded) + 7) % 256

\* generate_payload(cpu_temp, gpu_temp): the frame, or the ValueError that
\* bytes.fromhex raises on a text that is not an even run of hex digits.
generate_payload(cpu, gpu) ==
    LET cpu_encoded == encode_temperature(cpu)
        gpu_encoded == encode_temperature(gpu)
    IN  IF ~FromHexOK(cpu_encoded \o gpu_encoded)
        THEN [raised |-> TRUE, value |-> <<>>]
        ELSE LET combined_encoded == FromHex(cpu_encoded \o gpu_encoded)
                 checksum    == Checksum(combined_encoded)
                 payload_hex == HeaderHex \o cpu_encoded \o gpu_encoded \o Format02x(checksum)
             IN  IF ~FromHexOK(payload_hex)
                 THEN [raised |-> TRUE, value |-> <<>>]
                 ELSE [raised |-> FALSE, value |-> FromHex(payload_hex)]


\* ------------------------------------------------------- configuration
S_k10temp == <<"k","1","0","t","e","m","p">>
S_amdgpu  == <<"a","m","d","g","p","u">>
S_Tctl    == <<"T","c","t","l">>
S_edge    == <<"e","d","g","e">>
S_zenpower == <<"z","e","n","p","o","w","e","r">>
S_junction == <<"j","u","n","c","t","i","o","n">>
S_nvidia  == <<"n","v","i","d","i","a">>
S_NVIDIA  == <<"N","V","I","D","I","A">>
S_Nvidia  == <<"N","v","i","d","i","a">>
S_gpu0    == <<"g","p","u","0">>
S_K10temp == <<"K","1","0","t","e","m","p">>
S_tctl    == <<"t","c","t","l">>
S_Tdie    == <<"T","d","i","e">>

\* A section of the configuration file: whether it is there, and its keys.
Section(sensor, name) ==
    [present |-> TRUE, keys |-> {"sensor", "name"}, sensor |-> sensor, name |-> name]
NoSection == [present |-> FALSE, keys |-> {}, sensor |-> <<>>, name |-> <<>>]

ConfFile(cpu, gpu) == [exists |-> TRUE, cpu |-> cpu, gpu |-> gpu]

\* The contents /etc/antec/sensors.conf may have at startup.
ConfFiles ==
    { [exists |-> FALSE, cpu |-> NoSection, gpu |-> NoSection],
      ConfFile(Section(S_k10temp, S_Tctl), Section(S_amdgpu, S_edge)),
      ConfFile(Section(S_k10temp, S_Tctl), Section(S_amdgpu, S_junction)),
      ConfFile(Section(S_zenpower, S_Tctl), Section(S_amdgpu, S_edge)),
      ConfFile(Section(S_k10temp, S_Tctl), Section(S_nvidia, S_gpu0)),
      ConfFile(Section(S_k10temp, S_Tctl), Section(S_NVIDIA, S_gpu0)),
      ConfFile(Section(S_k10temp, S_Tctl), Section(S_Nvidia, S_gpu0)),
      ConfFile(Section(S_zenpower, S_Tctl), Section(S_nvidia, S_gpu0)),
      ConfFile(Section(S_k10temp, S_Tctl), NoSection),
      ConfFile(Section(S_k10temp, S_Tctl),
               [present |-> TRUE, keys |-> {"sensor"}, sensor |-> S_amdgpu, name |-> <<>>]) }

NoConfig ==
    [present |-> FALSE,
     cpu |-> [sensor |-> <<>>, name |-> <<>>],
     gpu |-> [sensor |-> <<>>, name |-> <<>>]]

\* load_config(): None without the file or without one of the two sections;
\* config[section][key] raises KeyError when a key is missing.
load_config(cf) ==
    IF ~cf.exists THEN [raised |-> FALSE, value |-> NoConfig]
    ELSE IF cf.cpu.present /\ cf.gpu.present
    THEN IF {"sensor", "name"} \subseteq cf.cpu.keys /\ {"sensor", "name"} \subseteq cf.gpu.keys
         THEN [raised |-> FALSE,
               value |-> [present |-> TRUE,
                          cpu |-> [sensor |-> cf.cpu.sensor, name |-> cf.cpu.name],
                          gpu |-> [sensor |-> cf.gpu.sensor, name |-> cf.gpu.name]]]
         ELSE [raised |-> TRUE, value |-> NoConfig]
    ELSE [raised |-> FALSE, value |-> NoConfig]

\* ------------------------------------------------------------- hwmon tree
\* What a temperature source holds when it is read: an integer text
\* (millidegrees), no file, a file that cannot be opened, or other text.
Num(v)   == [kind |-> "num", val |-> v]
Missing  == [kind |-> "missing", val |-> 0]
Denied   == [kind |-> "denied", val |-> 0]
Garbage  == [kind |-> "garbage", val |-> 0]
NoRead   == [kind |-> "none", val |-> 0]

\* A tempN_label file with its tempN_input neighbour.
Chan(file, label, input) == [file |-> file, label |-> label, input |-> input]
\* A backend directory; has_name tells whether its name file exists.
Backend(dir, has_name, name, labels) ==
    [dir |-> dir, has_name |-> has_name, name |-> name, labels |-> labels]

\* A /sys/class/hwmon with a CPU backend, a directory without a name file and
\* a GPU backend, in listing order.
HwmonTypical ==
    [exists |-> TRUE,
     dirs |-> << Backend("hwmon0", TRUE, S_k10temp \o <<"\n">>,
                    << Chan("temp1", S_Tctl \o <<"\n">>, Num(47300)) >>),
                 Backend("hwmon1", FALSE, <<>>, <<>>),
                 Backend("hwmon2", TRUE, S_amdgpu \o <<"\n">>,
                    << Chan("temp1", S_edge \o <<"\n">>, Garbage),
                       Chan("temp2", S_edge \o <<"\n">>, Missing) >>) >>]

\* The states /sys/class/hwmon may have at startup.
HwmonSnapshots ==
    { HwmonTypical,
      [exists |-> TRUE,
       dirs |-> << Backend("hwmon0", TRUE, S_k10temp \o <<"\n">>,
                      << Chan("temp1", S_Tctl \o <<"\n">>, Num(5000)) >>) >>],
      [exists |-> TRUE, dirs |-> <<>>],
      [exists |-> FALSE, dirs |-> <<>>] }

\* The first label file of a backend, in listing order, whose trimmed text is
\* label_name; 0 when there is none (lines 48-53).
RECURSIVE find_label(_, _, _)
find_label(labels, label_name, i) ==
    IF i > Len(labels) THEN 0
    ELSE IF Strip(labels[i].label) = label_name THEN i
    ELSE find_label(labels, label_name, i + 1)

\* A variant that gives up at the first backend of that name when the label
\* is not among its channels.
RECURSIVE find_in_dirs_first_backend(_, _, _, _)
find_in_dirs_first_backend(dirs, sensor_name, label_name, i) ==
    IF i > Len(dirs) THEN None
    ELSE LET b == dirs[i]
             j == find_label(b.labels, label_name, 1)
         IN  IF b.has_name /\ Strip(b.name) = sensor_name
             THEN IF j > 0 THEN <<b.dir, b.labels[j].file>> ELSE None
             ELSE find_in_dirs_first_backend(dirs, sensor_name, label_name, i + 1)

\* The loop of find_temp_file over the backends from position i on.
RECURSIVE find_in_dirs(_, _, _, _)
find_in_dirs(dirs, sensor_name, label_name, i) ==
    IF i > Len(dirs) THEN None
    ELSE LET b == dirs[i]
             j == find_label(b.labels, label_name, 1)
         IN  IF b.has_name /\ Strip(b.name) = sensor_name /\ j > 0
             THEN <<b.dir, b.labels[j].file>>
             ELSE find_in_dirs(dirs, sensor_name, label_name, i + 1)

\* find_temp_file(sensor_name, label_name): the input path <<dir, tempN>>, or
\* None; os.listdir raises FileNotFoundError without /sys/class/hwmon.
find_temp_file(fs, sensor_name, label_name) ==
    IF ~fs.exists THEN [raised |-> TRUE, value |-> None]
    ELSE [raised |-> FALSE, value |-> find_in_dirs(fs.dirs, sensor_name, label_name, 1)]

\* The labels list that list_hwmon_sensors builds for one backend: a channel
\* whose input text is not a number raises inside the try and is not appended.
RECURSIVE list_labels(_, _)
list_labels(labels, i) ==
    IF i > Len(labels) THEN <<>>
    ELSE LET c == labels[i]
             rest == list_labels(labels, i + 1)
         IN  IF c.input.kind \in {"garbage", "denied"} THEN rest
             ELSE << [file |-> c.file, label |-> Strip(c.label),
                      temp |-> IF c.input.kind = "num"
                               THEN [none |-> FALSE, val |-> c.input.val]
                               ELSE [none |-> TRUE, val |-> 0]] >> \o rest

RECURSIVE list_dirs(_, _)
list_dirs(dirs, i) ==
    IF i > Len(dirs) THEN <<>>
    ELSE LET b == dirs[i]
             rest == list_dirs(dirs, i + 1)
         IN  IF b.has_name
             THEN << [path |-> b.dir, name |-> Strip(b.name),
                      labels |-> list_labels(b.labels, 1)] >> \o rest
             ELSE rest

\* list_hwmon_sensors(): the catalog, in insertion order.
list_hwmon_sensors(fs) == IF ~fs.exists THEN <<>> ELSE list_dirs(fs.dirs, 1)

\* Python list indexing: position (1-based) of index idx in a list of n
\* elements, negative indices counting from the end; 0 when IndexError.
PyIndex(n, idx) ==
    IF 0 <= idx /\ idx < n THEN idx + 1
    ELSE IF idx < 0 /\ -n <= idx THEN n + idx + 1
    ELSE 0

\* select_sensor(sensors) with the two numbers the user typed.
select_sensor(sensors, sensor_in, label_in) ==
    LET s == PyIndex(Len(sensors), sensor_in - 1)
    IN  IF s = 0 THEN [raised |-> TRUE, value |-> None]
        ELSE LET l == PyIndex(Len(sensors[s].labels), label_in - 1)
             IN  IF l = 0 THEN [raised |-> TRUE, value |-> None]
                 ELSE [raised |-> FALSE,
                       value |-> <<sensors[s].path, sensors[s].labels[l].file>>]


\* ------------------------------------------------------ temperature reads
NoExc == [in |-> "", type |-> ""]
Exc(where, type) == [in |-> where, type |-> type]

\* A variant that lets FileNotFoundError propagate like any other error.
read_temperature_uncaught(path, f) ==
    IF path = None THEN [raised |-> TRUE, type |-> "TypeError", value |-> 0]
    ELSE IF f.kind = "num" THEN [raised |-> FALSE, type |-> "", value |-> f.val]
    ELSE IF f.kind = "missing"
    THEN [raised |-> TRUE, type |-> "FileNotFoundError", value |-> 0]
    ELSE IF f.kind = "denied"
    THEN [raised |-> TRUE, type |-> "PermissionError", value |-> 0]
    ELSE [raised |-> TRUE, type |-> "ValueError", value |-> 0]

\* read_temperature(path) when the path holds f: open(None) raises TypeError;
\* only FileNotFoundError is caught (0.0); PermissionError from open and
\* ValueError from float() propagate.
read_temperature(path, f) ==
    IF path = None THEN [raised |-> TRUE, type |-> "TypeError", value |-> 0]
    ELSE IF f.kind = "num" THEN [raised |-> FALSE, type |-> "", value |-> f.val]
    ELSE IF f.kind = "missing" THEN [raised |-> FALSE, type |-> "", value |-> 0]
    ELSE IF f.kind = "denied"
    THEN [raised |-> TRUE, type |-> "PermissionError", value |-> 0]
    ELSE [raised |-> TRUE, type |-> "ValueError", value |-> 0]

\* get_nvidia_temperature(): float(temp) of device 0 in whole degrees, or 0.0
\* on any exception (also the NameError of a pynvml that was never imported).
get_nvidia_temperature(nvml, nv) ==
    IF nvml /\ nv.kind = "num" THEN 1000 * nv.val ELSE 0

\* ---------------------------------------------------------- USB transport
\* The display as send_to_device finds it: attached, kernel driver bound to
\* interface 0, set_configuration succeeding, an OUT endpoint on (0,0),
\* the write succeeding.
Device(attached, driver, cfg_ok, has_out, write_ok) ==
    [attached |-> attached, driver |-> driver, cfg_ok |-> cfg_ok,
     has_out |-> has_out, write_ok |-> write_ok]

DeviceStates ==
    { Device(FALSE, FALSE, FALSE, FALSE, FALSE) } \cup
    { Device(TRUE, dr, c, o, w) : dr \in BOOLEAN, c \in BOOLEAN, o \in BOOLEAN, w \in BOOLEAN }

NoSend == [ops |-> <<>>, wire |-> <<>>, log |-> "", held |-> FALSE, raised |-> FALSE]

\* A variant in which a device that was found is not used.
find_absent(d) == FALSE

\* usb.core.find(idVendor, idProduct) returns a device iff one is attached.
find(d) == d.attached

\* A variant whose USBError handler tries the write a second time.
after_write_retry(ops, p, d) ==
    [ops  |-> ops \o (IF d.write_ok THEN <<"write">> ELSE <<"write", "write">>)
                  \o <<"dispose_resources">>,
     wire |-> IF d.write_ok THEN p ELSE <<>>,
     log  |-> IF d.write_ok THEN "" ELSE "Failed to send payload",
     held |-> FALSE, raised |-> FALSE]

\* Lines 189-194: the write, its USBError handler, dispose_resources.
after_write(ops, p, d) ==
    [ops  |-> ops \o <<"write", "dispose_resources">>,
     wire |-> IF d.write_ok THEN p ELSE <<>>,
     log  |-> IF d.write_ok THEN "" ELSE "Failed to send payload",
     held |-> FALSE, raised |-> FALSE]

\* send_to_device(payload) on a display in state d: the USB calls made in
\* order, the frame that reached the endpoint, the message printed, whether
\* the device's resources are still held at the end, whether USBError escaped.
send_to_device(p, d) ==
    IF ~find(d)
    THEN [ops |-> <<"find">>, wire |-> <<>>, log |-> "Device not found",
          held |-> FALSE, raised |-> FALSE]
    ELSE LET ops1 == <<"find", "is_kernel_driver_active">>
                     \o (IF d.driver THEN <<"detach_kernel_driver">> ELSE <<>>)
                     \o <<"set_configuration">>
         IN  IF ~d.cfg_ok
             THEN [ops |-> ops1, wire |-> <<>>, log |-> "", held |-> TRUE, raised |-> TRUE]
             ELSE LET ops2 == ops1 \o <<"get_active_configuration", "find_descriptor">>
                  IN  IF ~d.has_out
                      THEN [ops |-> ops2, wire |-> <<>>, log |-> "Could not find OUT endpoint",
                            held |-> TRUE, raised |-> FALSE]
                      ELSE after_write(ops2, p, d)


\* ---------------------------------------------------------------- startup
\* Largest number the user types at a select_sensor prompt.
MaxChoice == 3

\* What the user types: two numbers per select_sensor call and the answer
\* to the NVIDIA question.
UserInputs ==
    [cpu_sensor : 0..MaxChoice, cpu_label : 0..MaxChoice - 1,
     ans : {<<"y">>, <<" ", "Y">>, <<"n">>},
     gpu_sensor : 0..MaxChoice, gpu_label : 0..MaxChoice - 1]

\* Where main() stands after its startup part, and the locals it has set.
Started(next, cpu, gpu, nvidia, log, e) ==
    [next |-> next, cpu_path |-> cpu, gpu_path |-> gpu, use_nvidia |-> nvidia,
     log |-> log, exc |-> e]

\* A variant that takes the vendor API whether or not it was imported.
nvidia_branch_unchecked(nvml, cpu) ==
    Started("read_cpu", cpu, None, TRUE, "Starting temperature monitor...", NoExc)

\* Lines 203-208: 'nvidia' was configured.
nvidia_branch(nvml, cpu) ==
    IF nvml
    THEN Started("read_cpu", cpu, None, TRUE, "Starting temperature monitor...", NoExc)
    ELSE Started("exited", cpu, None, FALSE,
                 "NVML library not available but 'nvidia' was specified in config.", NoExc)

\* A variant that checks the CPU path only.
hwmon_branch_cpu_only(fs, config, cpu) ==
    LET g == find_temp_file(fs, config.gpu.sensor, config.gpu.name)
    IN  IF g.raised
        THEN Started("startup_error", cpu, None, FALSE, "",
                     Exc("find_temp_file", "FileNotFoundError"))
        ELSE IF cpu = None
        THEN Started("exited", cpu, g.value, FALSE,
                     "Error: Could not find temperature files for sensors specified in the config.",
                     NoExc)
        ELSE Started("read_cpu", cpu, g.value, FALSE, "Starting temperature monitor...", NoExc)

\* Lines 210-213: the GPU is a hwmon sensor; both paths are checked here.
hwmon_branch(fs, config, cpu) ==
    LET g == find_temp_file(fs, config.gpu.sensor, config.gpu.name)
    IN  IF g.raised
        THEN Started("startup_error", cpu, None, FALSE, "",
                     Exc("find_temp_file", "FileNotFoundError"))
        ELSE IF cpu = None \/ g.value = None
        THEN Started("exited", cpu, g.value, FALSE,
                     "Error: Could not find temperature files for sensors specified in the config.",
                     NoExc)
        ELSE Started("read_cpu", cpu, g.value, FALSE, "Starting temperature monitor...", NoExc)

\* Lines 200-213: startup with a configuration.
resolve_configured(config, fs, nvml) ==
    LET c == find_temp_file(fs, config.cpu.sensor, config.cpu.name)
    IN  IF c.raised
        THEN Started("startup_error", None, None, FALSE, "",
                     Exc("find_temp_file", "FileNotFoundError"))
        ELSE IF Lower(config.gpu.sensor) = S_nvidia
        THEN nvidia_branch(nvml, c.value)
        ELSE hwmon_branch(fs, config, c.value)

\* Lines 229-230 and 233-234: the GPU source is picked from the catalog.
select_gpu(sensors, cpu, inp) ==
    LET g == select_sensor(sensors, inp.gpu_sensor, inp.gpu_label)
    IN  IF g.raised
        THEN Started("startup_error", cpu, None, FALSE, "", Exc("select_sensor", "IndexError"))
        ELSE Started("read_cpu", cpu, g.value, FALSE, "Starting temperature monitor...", NoExc)

\* Lines 214-234: startup without a configuration.
resolve_interactive(fs, nvml, inp) ==
    LET sensors == list_hwmon_sensors(fs)
    IN  IF sensors = <<>>
        THEN Started("exited", None, None, FALSE, "No hwmon sensors found!", NoExc)
        ELSE LET c == select_sensor(sensors, inp.cpu_sensor, inp.cpu_label)
             IN  IF c.raised
                 THEN Started("startup_error", None, None, FALSE, "",
                              Exc("select_sensor", "IndexError"))
                 ELSE IF nvml /\ Lower(Strip(inp.ans)) = <<"y">>
                 THEN Started("read_cpu", c.value, None, TRUE,
                              "Starting temperature monitor...", NoExc)
                 ELSE select_gpu(sensors, c.value, inp)

\* ------------------------------------------------------------------ state
VARIABLES
    conf_file,       \* /etc/antec/sensors.conf
    hwmon,           \* /sys/class/hwmon at startup
    NVML_AVAILABLE,  \* whether "import pynvml" succeeded
    pc,              \* where main() stands
    config, sensors, cpu_path, gpu_path, use_nvidia,  \* locals of main(), startup
    cpu_temp, gpu_temp, payload,              \* locals of main(), loop
    exc,             \* the uncaught exception that ended main(), if any
    log,             \* the last message printed
    cpu_raw, gpu_raw,\* what the CPU and GPU sources held when last read
    usb,             \* the display as the last send_to_device found it
    tx,              \* what the last send_to_device did
    missed,          \* ticks so far that printed "Device not found"
    tick             \* the statements the current iteration has run so far

vars == <<conf_file, hwmon, NVML_AVAILABLE, pc, config, sensors, cpu_path, gpu_path,
          use_nvidia, cpu_temp, gpu_temp, payload, exc, log, cpu_raw, gpu_raw, usb, tx,
          missed, tick>>

env == <<conf_file, hwmon, NVML_AVAILABLE>>
resolved == <<config, sensors, cpu_path, gpu_path, use_nvidia>>

\* An iteration of while True: the statements run so far, in order, the two
\* values read, where the GPU value came from and the frame passed to
\* send_to_device.
NoTick == [steps |-> <<>>, cpu |-> 0, gpu |-> 0, gpu_via |-> "", frame |-> <<>>]

\* What the temperature file of a resolved path may hold when it is read.
FileStates == { Missing, Denied, Garbage, Num(0), Num(47300), Num(-5000), Num(2560000) }
\* What NVML reports for device 0 (whole degrees), or that the query failed.
NvStates == { Num(0), Num(61), [kind |-> "error", val |-> 0] }

Init ==
    /\ conf_file \in ConfFiles
    /\ hwmon \in HwmonSnapshots
    /\ NVML_AVAILABLE \in BOOLEAN
    /\ pc = "startup"
    /\ config = NoConfig /\ sensors = <<>>
    /\ cpu_path = None /\ gpu_path = None /\ use_nvidia = FALSE
    /\ cpu_temp = 0 /\ gpu_temp = 0 /\ payload = <<>>
    /\ exc = NoExc /\ log = ""
    /\ cpu_raw = NoRead /\ gpu_raw = NoRead
    /\ usb = Device(FALSE, FALSE, FALSE, FALSE, FALSE)
    /\ tx = NoSend
    /\ missed = 0
    /\ tick = NoTick

\* main(), lines 197-236: load the configuration and resolve the sources.
Startup ==
    /\ pc = "startup"
    /\ LET c == load_config(conf_file)
       IN  IF c.raised
           THEN /\ pc' = "startup_error"
                /\ exc' = Exc("load_config", "KeyError")
                /\ UNCHANGED <<resolved, log>>
           ELSE \E inp \in UserInputs :
                  LET r == IF c.value.present
                           THEN resolve_configured(c.value, hwmon, NVML_AVAILABLE)
                           ELSE resolve_interactive(hwmon, NVML_AVAILABLE, inp)
                  IN  /\ pc' = r.next
                      /\ config' = c.value
                      /\ sensors' = IF c.value.present THEN <<>>
                                    ELSE list_hwmon_sensors(hwmon)
                      /\ cpu_path' = r.cpu_path
                      /\ gpu_path' = r.gpu_path
                      /\ use_nvidia' = r.use_nvidia
                      /\ log' = r.log
                      /\ exc' = r.exc
    /\ UNCHANGED <<env, cpu_temp, gpu_temp, payload, cpu_raw, gpu_raw, usb, tx, missed,
                   tick>>

\* Line 238: cpu_temp = read_temperature(cpu_path)
ReadCpu ==
    /\ pc = "read_cpu"
    /\ \E f \in (IF cpu_path = None THEN {NoRead} ELSE FileStates) :
         LET r == read_temperature(cpu_path, f)
         IN  /\ cpu_raw' = f
             /\ tick' = [NoTick EXCEPT !.steps = <<"read_cpu">>, !.cpu = r.value]
             /\ IF r.raised
                THEN /\ pc' = "loop_error"
                     /\ exc' = Exc("read_temperature", r.type)
                     /\ UNCHANGED <<cpu_temp, log>>
                ELSE /\ pc' = "read_gpu"
                     /\ cpu_temp' = r.value
                     /\ log' = IF f.kind = "missing"
                               THEN "Error: Temperature source not found" ELSE log
                     /\ UNCHANGED exc
    /\ UNCHANGED <<env, resolved, gpu_temp, payload, gpu_raw, usb, tx, missed>>

\* Lines 239-242: gpu_temp from the vendor API or from gpu_path.
ReadGpu ==
    /\ pc = "read_gpu"
    /\ IF use_nvidia
       THEN \E nv \in NvStates :
              /\ gpu_raw' = nv
              /\ gpu_temp' = get_nvidia_temperature(NVML_AVAILABLE, nv)
              /\ tick' = [tick EXCEPT !.steps = Append(@, "read_gpu"),
                                      !.gpu = get_nvidia_temperature(NVML_AVAILABLE, nv),
                                      !.gpu_via = "nvml"]
              /\ log' = IF nv.kind = "error"
                        THEN "Error reading Nvidia GPU temperature:" ELSE log
              /\ pc' = "encode"
              /\ UNCHANGED exc
       ELSE \E f \in (IF gpu_path = None THEN {NoRead} ELSE FileStates) :
              LET r == read_temperature(gpu_path, f)
              IN  /\ gpu_raw' = f
                  /\ tick' = [tick EXCEPT !.steps = Append(@, "read_gpu"),
                                          !.gpu = r.value, !.gpu_via = "hwmon"]
                  /\ IF r.raised
                     THEN /\ pc' = "loop_error"
                          /\ exc' = Exc("read_temperature", r.type)
                          /\ UNCHANGED <<gpu_temp, log>>
                     ELSE /\ pc' = "encode"
                          /\ gpu_temp' = r.value
                          /\ log' = IF f.kind = "missing"
                                    THEN "Error: Temperature source not found" ELSE log
                          /\ UNCHANGED exc
    /\ UNCHANGED <<env, resolved, cpu_temp, payload, cpu_raw, usb, tx, missed>>

\* Line 243: payload = generate_payload(cpu_temp, gpu_temp)
Encode ==
    /\ pc = "encode"
    /\ tick' = [tick EXCEPT !.steps = Append(@, "encode")]
    /\ LET r == generate_payload(cpu_temp, gpu_temp)
       IN  IF r.raised
           THEN /\ pc' = "loop_error"
                /\ exc' = Exc("generate_payload", "ValueError")
                /\ UNCHANGED payload
           ELSE /\ pc' = "send"
                /\ payload' = r.value
                /\ UNCHANGED exc
    /\ UNCHANGED <<env, resolved, cpu_temp, gpu_temp, log, cpu_raw, gpu_raw, usb, tx, missed>>

\* Line 244: send_to_device(payload)
Send ==
    /\ pc = "send"
    /\ \E d \in DeviceStates :
         LET r == send_to_device(payload, d)
         IN  /\ usb' = d
             /\ tx' = r
             /\ tick' = [tick EXCEPT !.steps = Append(@, "send"), !.frame = payload]
             /\ log' = IF r.log = "" THEN log ELSE r.log
             /\ missed' = IF ~d.attached /\ missed < MaxMissed THEN missed + 1 ELSE missed
             /\ IF r.raised
                THEN pc' = "loop_error" /\ exc' = Exc("send_to_device", "USBError")
                ELSE pc' = "sleep" /\ UNCHANGED exc
    /\ UNCHANGED <<env, resolved, cpu_temp, gpu_temp, payload, cpu_raw, gpu_raw>>

\* A variant whose next iteration starts at the encoding, the two reads
\* hoisted out of the loop.
Sleep_reads_hoisted ==
    /\ pc = "sleep"
    /\ pc' = "encode"
    /\ tick' = [tick EXCEPT !.steps = Append(@, "sleep")]
    /\ UNCHANGED <<env, resolved, cpu_temp, gpu_temp, payload, exc, log,
                   cpu_raw, gpu_raw, usb, tx, missed>>

\* Line 245: time.sleep(0.5), then the next iteration of while True.
Sleep ==
    /\ pc = "sleep"
    /\ pc' = "read_cpu"
    /\ tick' = [tick EXCEPT !.steps = Append(@, "sleep")]
    /\ UNCHANGED <<env, resolved, cpu_temp, gpu_temp, payload, exc, log,
                   cpu_raw, gpu_raw, usb, tx, missed>>

Next == Startup \/ ReadCpu \/ ReadGpu \/ Encode \/ Send \/ Sleep

Spec == Init /\ [][Next]_vars


\* ------------------------------------------ the lookup on its own inputs
\* A /sys/class/hwmon listed out of numeric order, with a backend whose name
\* differs in case, two backends of the same name (the first without the
\* label, in that spelling) and a label that two channels carry.
HwmonDuplicates ==
    [exists |-> TRUE,
     dirs |-> << Backend("hwmon3", TRUE, S_K10temp \o <<"\n">>,
                    << Chan("temp1", S_Tctl \o <<"\n">>, Num(30000)) >>),
                 Backend("hwmon0", TRUE, S_k10temp \o <<"\n">>,
                    << Chan("temp1", S_tctl \o <<"\n">>, Num(31000)) >>),
                 Backend("hwmon1", TRUE, <<" ">> \o S_k10temp \o <<" ", "\n">>,
                    << Chan("temp2", S_Tdie \o <<"\n">>, Num(32000)),
                       Chan("temp3", S_Tctl \o <<"\n">>, Num(33000)),
                       Chan("temp1", <<"\t">> \o S_Tctl \o <<"\n">>, Num(34000)) >>),
                 Backend("hwmon2", TRUE, S_amdgpu \o <<"\n">>,
                    << Chan("temp1", S_edge \o <<"\n">>, Num(35000)) >>) >>]

FindSnapshots == HwmonSnapshots \cup { HwmonDuplicates }

\* Configurations that name each of the sensors and labels above.
FindConfFiles ==
    { ConfFile(c, g) :
        c \in { Section(S_k10temp, S_Tctl), Section(S_k10temp, S_edge),
                Section(S_K10temp, S_Tctl), Section(S_k10temp, S_tctl),
                Section(S_k10temp, S_Tdie), Section(S_zenpower, S_Tctl),
                Section(S_amdgpu, S_edge) },
        g \in { Section(S_amdgpu, S_edge), Section(S_amdgpu, S_junction),
                Section(S_k10temp, S_Tctl), Section(S_nvidia, S_gpu0) } }

\* main() about to start, with one of these configurations and trees.
InitFind ==
    /\ conf_file \in FindConfFiles
    /\ hwmon \in FindSnapshots
    /\ NVML_AVAILABLE \in BOOLEAN
    /\ pc = "startup"
    /\ config = NoConfig /\ sensors = <<>>
    /\ cpu_path = None /\ gpu_path = None /\ use_nvidia = FALSE
    /\ cpu_temp = 0 /\ gpu_temp = 0 /\ payload = <<>>
    /\ exc = NoExc /\ log = ""
    /\ cpu_raw = NoRead /\ gpu_raw = NoRead
    /\ usb = Device(FALSE, FALSE, FALSE, FALSE, FALSE)
    /\ tx = NoSend
    /\ missed = 0
    /\ tick = NoTick

NextFind == Startup

SpecFind == InitFind /\ [][NextFind]_vars

\* ------------------------------------------- the encoder on its own inputs
\* The one-decimal grid 0.0, 0.1, ..., MaxTenths/10 degrees, in millidegrees.
Grid == { 100 * k : k \in 0..MaxTenths }
\* Temperatures off the grid, below zero, and at and above the values whose
\* tens no longer fit two hex digits.
OffGrid == { 0, 5000, 47300, 47350, 99900, 100000, 159990, 2559900, 2560000,
             40960000, -1, -5000, -10000 }

EncInputs == ((Grid \cup OffGrid) \X OffGrid) \cup (OffGrid \X (Grid \cup OffGrid))

\* main() about to encode the two readings of a tick.
InitEnc ==
    /\ conf_file = [exists |-> FALSE, cpu |-> NoSection, gpu |-> NoSection]
    /\ hwmon = HwmonTypical
    /\ NVML_AVAILABLE = FALSE
    /\ pc = "encode"
    /\ config = NoConfig /\ sensors = list_hwmon_sensors(HwmonTypical)
    /\ cpu_path = <<"hwmon0", "temp1">> /\ gpu_path = <<"hwmon2", "temp2">>
    /\ use_nvidia = FALSE
    /\ \E in \in EncInputs :
         /\ cpu_temp = in[1] /\ cpu_raw = Num(in[1])
         /\ gpu_temp = in[2] /\ gpu_raw = Num(in[2])
    /\ payload = <<>>
    /\ exc = NoExc /\ log = "Starting temperature monitor..."
    /\ usb = Device(FALSE, FALSE, FALSE, FALSE, FALSE)
    /\ tx = NoSend
    /\ missed = 0
    /\ tick = [NoTick EXCEPT !.steps = <<"read_cpu", "read_gpu">>,
                             !.cpu = cpu_temp, !.gpu = gpu_temp, !.gpu_via = "hwmon"]

NextEnc == Encode

SpecEnc == InitEnc /\ [][NextEnc]_vars

\* ------------------------------------------------------------ properties
\* The three digits of a grid temperature: tens, ones, first decimal.
Digits(m) == LET k == m \div 100 IN << k \div 100, (k \div 10) % 10, k % 10 >>
OnGrid(m) == m \in Grid
\* Each field formats to two hex digits: 0 <= temp < 2560 degrees.
TwoHexDigits(m) == 0 <= m /\ m < 256 * 10000
HeaderBytes == <<85, 170, 1, 1, 6>>

C4_GridDigits ==
    pc = "send" =>
        /\ OnGrid(cpu_temp) => SubSeq(payload, 6, 8) = Digits(cpu_temp)
        /\ (OnGrid(gpu_temp) /\ TwoHexDigits(cpu_temp)) =>
             SubSeq(payload, 9, 11) = Digits(gpu_temp)
        /\ (OnGrid(cpu_temp) /\ OnGrid(gpu_temp)) => Len(payload) = 5 + 3 + 3 + 1

\* C4 witness: 99.9 is encoded as (9, 9, 9) and 12.3 as (1, 2, 3).
C4_Witness ==
    /\ pc = "send" /\ cpu_temp = 12300 /\ gpu_temp = 99900
    /\ SubSeq(payload, 6, 8) = <<1, 2, 3>> /\ SubSeq(payload, 9, 11) = <<9, 9, 9>>

\* C5 (as stated): generate_payload never raises, and the tens field of each
\* temperature is floor(t/10) mod 256 in one byte.
C5_EncodeTotal ==
    /\ exc.in # "generate_payload"
    /\ pc = "send" =>
         /\ payload[6] = (cpu_temp \div 10000) % 256
         /\ payload[9] = (gpu_temp \div 10000) % 256

\* C10: for every t = k/10, k in 0..MaxTenths, decoding the three bytes of a
\* field as whole*10 + ones + first_decimal/10 gives t back (compared in
\* tenths), for the CPU field (bytes 5..7) and for the GPU field (bytes
\* 8..10, with a CPU temperature in [0, 2560) degrees before it).
C10_RoundTrip ==
    pc = "send" =>
        /\ OnGrid(cpu_temp) =>
             100 * payload[6] + 10 * payload[7] + payload[8] = cpu_temp \div 100
        /\ (OnGrid(gpu_temp) /\ TwoHexDigits(cpu_temp)) =>
             100 * payload[9] + 10 * payload[10] + payload[11] = gpu_temp \div 100

\* C10 witness: a frame of 0.7 and 47.3 degrees decodes to 7 and 473 tenths.
C10_Witness ==
    /\ pc = "send" /\ cpu_temp = 700 /\ gpu_temp = 47300
    /\ 100 * payload[6] + 10 * payload[7] + payload[8] = 7
    /\ 100 * payload[9] + 10 * payload[10] + payload[11] = 473


\* Where main() stands once "Starting temperature monitor..." was printed.
LoopPcs == {"read_cpu", "read_gpu", "encode", "send", "sleep", "loop_error"}

\* C2 (as stated): no error of the loop body ends the monitor loop.
C2_LoopSurvives == pc # "loop_error"

\* C3 (as stated): with a configuration, the loop only runs with a CPU source
\* and a GPU source that were resolved, whatever the GPU setting.
C3_LoopOnlyWithResolvedSources ==
    (config.present /\ pc \in LoopPcs) =>
        /\ cpu_path # None
        /\ use_nvidia \/ gpu_path # None

\* C6 (as stated): at every sleep between ticks no device resources acquired
\* by the tick's send_to_device remain unreleased.
C6_ReleasedAtSleep == pc = "sleep" => ~tx.held

\* C7: a tick that finds no device writes nothing and reports it; a later
\* tick that finds the device attached (with its OUT endpoint, the write
\* succeeding) runs the discovery again and writes its own frame, however
\* many ticks before it found no device.
C7_RecoversAfterNotFound ==
    /\ (pc = "sleep" /\ ~usb.attached) =>
          tx.wire = <<>> /\ tx.log = "Device not found"
    /\ (pc = "sleep" /\ missed >= 1 /\ usb.attached /\ usb.has_out /\ usb.write_ok) =>
          /\ tx.ops # <<>> /\ Head(tx.ops) = "find"
          /\ tx.wire = payload
          /\ payload # <<>>

\* C7 witness: after two ticks without a device, a tick wrote its frame.
C7_Witness ==
    /\ pc = "sleep" /\ missed >= 2
    /\ usb.attached /\ tx.wire = payload /\ Len(tx.wire) = 12
    /\ tx.ops[Len(tx.ops)] = "dispose_resources"

\* The reading a source delivered, in millidegrees: 0.0 for a missing file
\* or a failed vendor query.
ReadingOf(raw, nvidia) ==
    IF raw.kind \in {"missing", "error"} THEN 0
    ELSE IF nvidia THEN 1000 * raw.val ELSE raw.val
\* The three bytes that show a reading in [0, 2560) degrees.
FieldOf(m) == << m \div 10000, (m \div 1000) % 10, (m \div 100) % 10 >>

C8_FrameShowsZero ==
    (pc \in {"send", "sleep"} /\ (cpu_raw.kind = "missing" \/ gpu_raw.kind = "missing")) =>
        /\ Len(payload) = 12
        /\ SubSeq(payload, 6, 8) = FieldOf(ReadingOf(cpu_raw, FALSE))
        /\ SubSeq(payload, 9, 11) = FieldOf(ReadingOf(gpu_raw, use_nvidia))
        /\ cpu_raw.kind = "missing" => SubSeq(payload, 6, 8) = <<0, 0, 0>>
        /\ gpu_raw.kind = "missing" => SubSeq(payload, 9, 11) = <<0, 0, 0>>
        /\ pc = "sleep" => tx.ops # <<>>

C8_ReadYieldsZero ==
    /\ (pc = "read_cpu" /\ cpu_raw'.kind = "missing") =>
          pc' = "read_gpu" /\ cpu_temp' = 0
    /\ (pc = "read_gpu" /\ gpu_raw'.kind = "missing") =>
          pc' = "encode" /\ gpu_temp' = 0
    /\ (pc = "encode" /\ (cpu_raw.kind = "missing" \/ gpu_raw.kind = "missing")
          /\ TwoHexDigits(cpu_temp) /\ TwoHexDigits(gpu_temp)) =>
          pc' = "send"
    /\ (pc = "send" /\ (cpu_raw.kind = "missing" \/ gpu_raw.kind = "missing")) =>
          tx'.ops # <<>> /\ Head(tx'.ops) = "find"

\* C8: reading a resolved source whose file is missing yields 0.0 and does
\* not raise; with the other source's reading in the encoder's range the same
\* tick encodes and attempts the send, and its frame shows 0,0,0 for the
\* missing source and the other source's own reading in the other field.
C8_MissingFileReadsZero == []C8_FrameShowsZero /\ [][C8_ReadYieldsZero]_vars

\* C8 witness: CPU file missing, GPU at 47.3: the frame 00 00 00 04 07 03 was
\* handed to send_to_device.
C8_Witness ==
    /\ pc = "sleep" /\ cpu_raw.kind = "missing" /\ gpu_raw = Num(47300)
    /\ payload = <<85, 170, 1, 1, 6, 0, 0, 0, 4, 7, 3, 21>>
    /\ tx.ops # <<>>

\* The configuration file asks for 'nvidia' in some spelling.
NvidiaConfigured ==
    /\ conf_file.exists /\ conf_file.cpu.present /\ conf_file.gpu.present
    /\ conf_file.cpu.keys = {"sensor", "name"} /\ conf_file.gpu.keys = {"sensor", "name"}
    /\ conf_file.gpu.sensor \in {S_nvidia, S_NVIDIA, S_Nvidia}

\* C9: with 'nvidia' configured (in any letter case) and the vendor API
\* unavailable, main() ends at startup: the loop is never entered, no
\* temperature is read and no frame is encoded or sent.
C9_NvidiaWithoutNvmlStops ==
    (NvidiaConfigured /\ ~NVML_AVAILABLE) =>
        /\ pc \in {"startup", "exited", "startup_error"}
        /\ cpu_raw = NoRead /\ gpu_raw = NoRead
        /\ payload = <<>> /\ tx = NoSend
        /\ ~use_nvidia

\* C9 witness: 'NVIDIA' configured, no NVML: main() returned with its message.
C9_Witness ==
    /\ pc = "exited" /\ conf_file.gpu.sensor = S_NVIDIA /\ ~NVML_AVAILABLE
    /\ config.present
    /\ log = "NVML library not available but 'nvidia' was specified in config."


\* The channels <<i, j>> (backend i, label file j, in listing order) whose
\* backend has the trimmed name sn and whose trimmed label is ln.
MatchingChannels(fs, sn, ln) ==
    { ij \in (1..Len(fs.dirs)) \X (1..3) :
        /\ ij[2] <= Len(fs.dirs[ij[1]].labels)
        /\ fs.dirs[ij[1]].has_name
        /\ Strip(fs.dirs[ij[1]].name) = sn
        /\ Strip(fs.dirs[ij[1]].labels[ij[2]].label) = ln }

\* The input path of the first of them in listing order, None without any.
FirstMatchingPath(fs, sn, ln) ==
    LET M == MatchingChannels(fs, sn, ln)
    IN  IF M = {} THEN None
        ELSE LET first == CHOOSE a \in M :
                            \A b \in M : a[1] < b[1] \/ (a[1] = b[1] /\ a[2] <= b[2])
             IN  <<fs.dirs[first[1]].dir, fs.dirs[first[1]].labels[first[2]].file>>

IncompleteConfig(cf) ==
    \/ ~cf.exists
    \/ ~cf.cpu.present \/ ~cf.gpu.present
    \/ ~({"sensor", "name"} \subseteq cf.cpu.keys)
    \/ ~({"sensor", "name"} \subseteq cf.gpu.keys)

\* C12: on an incomplete configuration load_config does not fail: it yields
\* no configuration and startup goes on to interactive discovery.
C12_IncompleteConfigYieldsNone ==
    (pc # "startup" /\ IncompleteConfig(conf_file)) =>
        (exc.in # "load_config" /\ ~config.present)


\* The statements of the loop body, lines 238 to 245, in program order.
LoopOrder == <<"read_cpu", "read_gpu", "encode", "send", "sleep">>
Done(n) == SubSeq(LoopOrder, 1, n)

\* C13: every iteration of the loop runs read CPU, read GPU, encode, send,
\* sleep in that order, each once, and the frame handed to the send is the
\* encoding of the two readings taken in that same iteration.  (An iteration
\* that an exception ends has run a prefix of that order.)
C13_TickOrder ==
    /\ \E n \in 0..5 : tick.steps = Done(n)
    /\ pc = "read_cpu" => tick.steps \in {<<>>, LoopOrder}
    /\ pc = "read_gpu" => tick.steps = Done(1)
    /\ pc = "encode" => tick.steps = Done(2)
    /\ pc = "send" => tick.steps = Done(3)
    /\ pc = "sleep" => tick.steps = Done(4)
    /\ Len(tick.steps) >= 4 =>
         /\ tick.cpu = ReadingOf(cpu_raw, FALSE)
         /\ tick.gpu = ReadingOf(gpu_raw, use_nvidia)
         /\ tick.frame = generate_payload(ReadingOf(cpu_raw, FALSE),
                                          ReadingOf(gpu_raw, use_nvidia)).value

\* C13 witness: an iteration at its sleep, having read 47.3 degrees and a
\* missing file and handed the frame for 47.3 and 0 degrees to the send.
C13_Witness ==
    /\ pc = "sleep" /\ tick.steps = Done(4)
    /\ cpu_raw = Num(47300) /\ gpu_raw = Missing
    /\ SubSeq(tick.frame, 6, 11) = <<4, 7, 3, 0, 0, 0>>
    /\ tx.ops # <<>>


\* The catalog lists channel c of backend b, and with no current value when
\* its temperature could not be read.
Listed(b, c) ==
    \E s \in 1..Len(sensors) :
        /\ sensors[s].path = b.dir
        /\ \E l \in 1..Len(sensors[s].labels) :
             /\ sensors[s].labels[l].file = c.file
             /\ c.input.kind # "num" => sensors[s].labels[l].temp.none

\* C14: after discovery every labelled channel of every named backend is in
\* the catalog, a channel whose temperature read failed with value None.
C14_FailedReadStillListed ==
    (pc # "startup" /\ ~config.present /\ exc.in # "load_config") =>
        \A i \in 1..Len(hwmon.dirs) :
            hwmon.dirs[i].has_name =>
                \A j \in 1..Len(hwmon.dirs[i].labels) :
                    Listed(hwmon.dirs[i], hwmon.dirs[i].labels[j])


\* How often, and where first, a USB call occurs in a sequence of calls.
CountOf(ops, name) == Cardinality({ i \in 1..Len(ops) : ops[i] = name })
Called(ops, name) == CountOf(ops, name) > 0
FirstOf(ops, name) == CHOOSE i \in 1..Len(ops) : ops[i] = name /\ \A k \in 1..(i - 1) : ops[k] # name
\* The steps the send goes through, in the order the claim gives them.
SendOrder == <<"find", "detach_kernel_driver", "set_configuration", "find_descriptor", "write">>

\* C15: one send_to_device call goes through find, detach (iff the kernel
\* driver is active), set configuration, locate the OUT endpoint, write, in
\* that order; the write happens only after the earlier steps succeeded, not
\* at all when the device is not found or has no OUT endpoint, and at most
\* once per tick.
C15_SendStepOrder ==
    Len(tick.steps) >= 4 =>
        /\ tx.ops[1] = "find"
        /\ \A a \in 1..5 : CountOf(tx.ops, SendOrder[a]) <= 1
        /\ \A a \in 1..5, b \in 1..5 :
             (a < b /\ Called(tx.ops, SendOrder[a]) /\ Called(tx.ops, SendOrder[b])) =>
                 FirstOf(tx.ops, SendOrder[a]) < FirstOf(tx.ops, SendOrder[b])
        /\ Called(tx.ops, "detach_kernel_driver") <=> (usb.attached /\ usb.driver)
        /\ Called(tx.ops, "write") <=> (usb.attached /\ usb.cfg_ok /\ usb.has_out)
        /\ Called(tx.ops, "write") =>
             /\ Called(tx.ops, "set_configuration")
             /\ Called(tx.ops, "find_descriptor")
        /\ (~usb.attached \/ ~usb.has_out) => (~Called(tx.ops, "write") /\ tx.wire = <<>>)
        /\ tx.wire # <<>> => (Called(tx.ops, "write") /\ tx.wire = tick.frame)

\* C15 witness: a send that detached the kernel driver and wrote the frame.
C15_Witness ==
    /\ pc = "sleep" /\ usb.driver
    /\ tx.ops = <<"find", "is_kernel_driver_active", "detach_kernel_driver",
                  "set_configuration", "get_active_configuration",
                  "find_descriptor", "write", "dispose_resources">>
    /\ Len(tx.wire) = 12 /\ tx.wire = tick.frame


\* p is the input path of a labelled channel of a named backend of the tree.
IsHwmonPath(p) ==
    \E i \in 1..Len(hwmon.dirs) :
        /\ hwmon.dirs[i].has_name
        /\ \E j \in 1..Len(hwmon.dirs[i].labels) :
             p = <<hwmon.dirs[i].dir, hwmon.dirs[i].labels[j].file>>

C16_GpuSourceConsistent ==
    pc \in LoopPcs =>
        /\ use_nvidia => (NVML_AVAILABLE /\ gpu_path = None)
        /\ ~use_nvidia => IsHwmonPath(gpu_path)
        /\ Len(tick.steps) >= 2 =>
             /\ tick.gpu_via = IF use_nvidia THEN "nvml" ELSE "hwmon"
             /\ gpu_raw.kind = "error" => use_nvidia
             /\ gpu_raw.kind \in {"missing", "denied", "garbage"} => ~use_nvidia
             /\ pc # "loop_error" => tick.gpu = ReadingOf(gpu_raw, use_nvidia)

C16_LoopKeepsSources ==
    pc \in LoopPcs => UNCHANGED <<cpu_path, gpu_path, use_nvidia>>

\* C16: whenever the loop runs, use_nvidia holds only with the vendor API
\* available and then gpu_path is None and each tick reads the GPU through the
\* vendor API; otherwise gpu_path is the input path of a channel of the hwmon
\* tree and each tick reads the GPU from it; no step of the loop changes
\* cpu_path, gpu_path or use_nvidia.
C16_GpuSourceFixed == []C16_GpuSourceConsistent /\ [][C16_LoopKeepsSources]_vars

\* C16 witness: interactive startup chose the vendor API and a tick has read
\* the GPU through it.
C16_Witness ==
    /\ pc = "sleep" /\ ~config.present
    /\ use_nvidia /\ NVML_AVAILABLE /\ gpu_path = None
    /\ tick.gpu_via = "nvml" /\ gpu_raw = Num(61) /\ tick.gpu = 61000

====
